---- MODULE Spec2Model ----
(***************************************************************************)
(* Model of ClaudePersonalAssistant:                                       *)
(*   calendar_integration.py  get_calendar_service, get_upcoming_events    *)
(*   main.py                  send_email, run_assistant, main              *)
(***************************************************************************)
EXTENDS Integers, Sequences, FiniteSets, TLC

(***************************************************************************)
(* Bounds of the model.                                                    *)
(***************************************************************************)
NumRuns == 2
MaxCalls == 2
MaxItems == 1

RunIds == 1..NumRuns

(***************************************************************************)
(* The token file and the credential object.                               *)
(* A credential is modelled by the generation of its access token, by      *)
(* whether it carries an access token and a refresh token, and by whether  *)
(* its expiry has passed.                                                  *)
(***************************************************************************)
Cred(g, t, e, r) ==
    [kind |-> "cred", gen |-> g, token |-> t, expired |-> e, refresh_token |-> r]

\* creds = None, and os.path.exists(TOKEN_FILE) being false
None == [kind |-> "none", gen |-> 0, token |-> FALSE, expired |-> FALSE, refresh_token |-> FALSE]

\* the token file after open(TOKEN_FILE, "w") and before token.write(...)
Truncated == [kind |-> "truncated", gen |-> 0, token |-> FALSE, expired |-> FALSE, refresh_token |-> FALSE]

StoredCreds == { Cred(0, t, e, r) : t \in BOOLEAN, e \in BOOLEAN, r \in BOOLEAN }

\* google.oauth2 Credentials.valid: a token is present and not expired
Valid(c) == c.kind = "cred" /\ c.token /\ ~c.expired

NeedsAuthNoneOnly(c) == c.kind = "none"

\* `not creds or not creds.valid`
NeedsAuth(c) == c.kind = "none" \/ ~Valid(c)

\* `creds and creds.expired and creds.refresh_token`
CanRefresh(c) == c.kind = "cred" /\ c.expired /\ c.refresh_token

(***************************************************************************)
(* Remote events.  Each of "start" and "end" is either absent from the     *)
(* record, or a mapping that carries a dateTime, a date, both or neither.  *)
(***************************************************************************)
Shapes == {"absent", "neither", "date", "dateTime", "both"}

\* a key the remote record does not carry
Absent == "<absent>"

\* startT and endT are the instants the record's start and end stand for
RemoteEvents == [start : Shapes, end : Shapes, startT : {0}, endT : {1},
                 summary : {"Standup"}, location : {Absent}]

PickDateFirst(shape) ==
    CASE shape \in {"date", "both"} -> "date"
      [] shape = "dateTime" -> "dateTime"
      [] OTHER -> "None"

\* event["start"].get("dateTime", event["start"].get("date"))
Pick(shape) ==
    CASE shape \in {"dateTime", "both"} -> "dateTime"
      [] shape = "date" -> "date"
      [] OTHER -> "None"

\* event["start"] / event["end"] raise KeyError when the key is absent
Subscriptable(ev) == ev.start # "absent" /\ ev.end # "absent"

\* event.get(key, default)
Get(value, default) == IF value = Absent THEN default ELSE value

\* lines 93-103: the normalized record
FormatEvent(ev) ==
    [summary |-> Get(ev.summary, "No title"),
     start |-> Pick(ev.start), startT |-> ev.startT,
     end |-> Pick(ev.end), endT |-> ev.endT,
     location |-> Get(ev.location, "")]

ItemLists == UNION { [1..n -> RemoteEvents] : n \in 0..MaxItems }

\* the for loop of get_upcoming_events: the list is returned only if every
\* record could be normalized
RECURSIVE FormatEvents(_)
FormatEvents(evs) ==
    IF evs = <<>> THEN <<>>
    ELSE <<FormatEvent(Head(evs))>> \o FormatEvents(Tail(evs))

AllSubscriptable(evs) == \A i \in 1..Len(evs) : Subscriptable(evs[i])

RECURSIVE NormalizeBatchSkipBad(_)
NormalizeBatchSkipBad(evs) ==
    IF evs = <<>> THEN <<>>
    ELSE (IF Subscriptable(Head(evs)) THEN <<FormatEvent(Head(evs))>> ELSE <<>>)
         \o NormalizeBatchSkipBad(Tail(evs))

\* lines 88-115 as a function of the items of the response: the list of the
\* normalized records, or [] when normalizing one of them raised
NormalizeBatch(evs) == IF AllSubscriptable(evs) THEN FormatEvents(evs) ELSE <<>>

(***************************************************************************)
(* The list query, lines 70-86, and the service that answers it            *)
(***************************************************************************)
MaxTime == 3
MaxDays == 2
MaxBatch == 2

maxResults == 50

TimeMaxPlusOne(now, days) == now + days + 1

\* time_min is now; time_max is now + timedelta(days=days)
TimeMax(now, days) == now + days

\* events().list(timeMin, timeMax): an event matches when it ends after
\* timeMin and starts before timeMax
Matches(ev, timeMin, timeMax) == ev.endT > timeMin /\ ev.startT < timeMax

\* orderBy="startTime": ascending by start, ties in calendar order
RECURSIVE InsertByStart(_, _)
InsertByStart(ev, sorted) ==
    IF sorted = <<>> THEN <<ev>>
    ELSE IF ev.startT < Head(sorted).startT THEN <<ev>> \o sorted
    ELSE <<Head(sorted)>> \o InsertByStart(ev, Tail(sorted))

RECURSIVE SortByStart(_)
SortByStart(evs) ==
    IF evs = <<>> THEN <<>>
    ELSE InsertByStart(evs[Len(evs)], SortByStart(SubSeq(evs, 1, Len(evs) - 1)))

Take(evs, n) == SubSeq(evs, 1, IF Len(evs) < n THEN Len(evs) ELSE n)

\* the items of the response to the query of lines 75-86
ListEvents(cal, timeMin, timeMax) ==
    Take(SortByStart(SelectSeq(cal, LAMBDA ev : Matches(ev, timeMin, timeMax))), maxResults)

\* calendars whose events differ in when they start and end
TimedEvents ==
    { ev \in [start : {"dateTime"}, end : {"dateTime"}, startT : 0..MaxTime,
              endT : 0..MaxTime, summary : {"Standup"}, location : {Absent}] :
        ev.startT <= ev.endT }
TimedCalendars == UNION { [1..n -> TimedEvents] : n \in 0..MaxBatch }

\* calendars whose events differ in the shape of start and end
ShapeCalendars == UNION { [1..n -> RemoteEvents] : n \in 0..MaxBatch }

\* calendars of one event, which differs in the keys it carries
FieldEvents == [start : Shapes, end : Shapes, startT : {0}, endT : {1},
                summary : {Absent, "", "Standup"}, location : {Absent, "", "Room 1"}]
FieldCalendars == { <<ev>> : ev \in FieldEvents }

(***************************************************************************)
(* format_events_for_prompt                                                *)
(***************************************************************************)
NoEventsLine ==
    <<"No calendar events found for the next 5 days (or calendar not configured).">>

\* lines 127-134: a start with a "T" is a timestamp, any other a date
DateStr(start) ==
    IF start = "dateTime" THEN "%a %b %d, %I:%M %p" ELSE "%a %b %d (all day)"

RenderLineAlwaysAt(ev) == <<"- ", DateStr(ev.start), ": ", ev.summary, " @ ", ev.location>>

\* lines 136-138: the line of one event
RenderLine(ev) ==
    <<"- ", DateStr(ev.start), ": ", ev.summary>>
    \o (IF ev.location # "" THEN <<" @ ", ev.location>> ELSE <<>>)

RECURSIVE RenderLines(_)
RenderLines(events) ==
    IF events = <<>> THEN <<>>
    ELSE <<RenderLine(Head(events))>> \o RenderLines(Tail(events))

\* format_events_for_prompt(events): the lines joined by newlines, or the
\* TypeError of `"T" in start` for a start that is None
format_events_for_prompt(events) ==
    IF events = <<>> THEN [status |-> "returned", lines |-> <<NoEventsLine>>]
    ELSE IF \E i \in 1..Len(events) : events[i].start = "None"
    THEN [status |-> "raised", lines |-> <<>>]
    ELSE [status |-> "returned", lines |-> RenderLines(events)]

\* the except clauses of get_upcoming_events, in the order they are tried
ExceptClause(e) ==
    CASE e = "HttpError" -> "Google Calendar API error"
      [] e = "FileNotFoundError" -> "Calendar setup required"
      [] OTHER -> "Error fetching calendar events"

\* exceptions (all subclasses of Exception) the calls made can raise
RefreshError == "RefreshError"
FlowErrors == {"AccessDeniedError"}
HttpErrors == {"HttpError", "TimeoutError"}

(***************************************************************************)
(* The process environment.  A variable is unset, or set to a string; the  *)
(* value of SMTP_PORT is kept as its sequence of characters, because it is *)
(* parsed.                                                                 *)
(***************************************************************************)
MaxPortLen == 2

Unset(v) == [set |-> FALSE, value |-> v]
SetTo(v) == [set |-> TRUE, value |-> v]

\* os.getenv(name) used as a condition: unset (None) and "" are both falsy
Truthy(var, empty) == var.set /\ var.value # empty

\* os.getenv(name, default)
getenv(var, default) == IF var.set THEN var.value ELSE default

Digits == {"2", "5"}
PortChars == Digits \cup {"x"}
PortStrings == UNION { [1..n -> PortChars] : n \in 0..MaxPortLen }
DefaultPort == <<"1", "0", "2", "5">>

DigitValue(ch) ==
    CASE ch = "0" -> 0 [] ch = "1" -> 1 [] ch = "2" -> 2 [] ch = "5" -> 5 [] OTHER -> 0 - 1

\* int(s): a ValueError unless s is a non-empty string of digits
IsInt(s) == Len(s) > 0 /\ \A i \in 1..Len(s) : DigitValue(s[i]) >= 0

HostValues == {Unset(""), SetTo(""), SetTo("localhost")}
PortValues == {Unset(<<>>)} \cup { SetTo(s) : s \in PortStrings }
UserValues == {Unset(""), SetTo(""), SetTo("user")}
PasswordValues == {Unset(""), SetTo(""), SetTo("secret")}
FromValues == {Unset(""), SetTo("me@example.com")}
KeyValues == {Unset(""), SetTo(""), SetTo("sk-key")}
RecipientValues == {Unset(""), SetTo(""), SetTo("you@example.com")}

Envs == [SMTP_HOST : HostValues, SMTP_PORT : PortValues, SMTP_USER : UserValues,
         SMTP_PASSWORD : PasswordValues, FROM_EMAIL : FromValues,
         ANTHROPIC_API_KEY : KeyValues, RECIPIENT_EMAIL : RecipientValues]

(***************************************************************************)
(* send_email                                                              *)
(***************************************************************************)
Missing == "<missing>"

\* the argument mappings the agent can pass: each key present or missing
ArgSets == [to : {Missing, "you@example.com"}, subject : {Missing, "Reminders"},
            body_html : {Missing, "<p>hi</p>"}]

\* what the SMTP server does: the operation that raises, if any
SmtpFaults == {"none", "connect", "starttls", "login", "sendmail"}

\* the operations of the `with smtplib.SMTP(...)` block, in order
SmtpPlan(user, password) ==
    IF user # "" /\ password # ""
    THEN <<"connect", "starttls", "login", "sendmail">>
    ELSE <<"connect", "sendmail">>

\* the operations actually attempted: the plan up to and including the
\* first one that raises
RECURSIVE Attempted(_, _)
Attempted(plan, fault) ==
    IF plan = <<>> THEN <<>>
    ELSE IF Head(plan) = fault THEN <<fault>>
    ELSE <<Head(plan)>> \o Attempted(Tail(plan), fault)

Raises(plan, fault) == \E i \in 1..Len(plan) : plan[i] = fault

Returned(text, err) ==
    [status |-> "returned", content |-> <<[type |-> "text", text |-> text]>>,
     is_error |-> err, exc |-> "none"]

Raised(e) == [status |-> "raised", content |-> <<>>, is_error |-> FALSE, exc |-> e]

HostRequiredText ==
    <<"Error:", "SMTP_HOST", "is required.",
      "Set it to 'localhost' for Mailpit or 'smtp.gmail.com' for Gmail.">>

\* the lines of send_email that run outside its try block
PortParses(e) == IsInt(getenv(e.SMTP_PORT, DefaultPort))

ArgsPresent(args) == args.to # Missing /\ args.subject # Missing /\ args.body_html # Missing

\* send_email(args) under environment e and SMTP behaviour fault: the result
\* (or the exception that leaves the function) and the network operations made
send_email(e, args, fault) ==
    LET smtp_user == getenv(e.SMTP_USER, "")
        smtp_password == getenv(e.SMTP_PASSWORD, "")
        plan == SmtpPlan(smtp_user, smtp_password)
    IN  IF ~PortParses(e)
        THEN [res |-> Raised("ValueError"), net |-> <<>>]
        ELSE IF ~Truthy(e.SMTP_HOST, "")
        THEN [res |-> Returned(HostRequiredText, TRUE), net |-> <<>>]
        ELSE IF ~ArgsPresent(args)
        THEN [res |-> Raised("KeyError"), net |-> <<>>]
        ELSE IF Raises(plan, fault)
        THEN [res |-> Returned(<<"Failed to send email:", fault>>, TRUE),
              net |-> Attempted(plan, fault)]
        ELSE [res |-> Returned(<<"Email sent successfully to", args.to,
                                 "with subject:", args.subject>>, FALSE),
              net |-> plan]

(***************************************************************************)
(* run_assistant: the options the session is opened with, and the events   *)
(* of the session.                                                         *)
(***************************************************************************)
MaxEvents == 3
MaxTools == 2

allowed_tools ==
    {"mcp__email__send_email",
     "mcp__plugin_Notion_notion__notion-search",
     "mcp__plugin_Notion_notion__notion-fetch",
     "mcp__dex__search_contacts_full_text",
     "mcp__dex__get_contact_details",
     "mcp__dex__get_contact_reminders"}

permission_mode == "bypassPermissions"

\* tools the agent can ask for: those of the allow-list and built-in ones
\* that are not on it
RequestedTools == {"mcp__email__send_email", "mcp__dex__get_contact_details", "Bash", "Write"}

\* the decision of the session boundary on a tool request, under the options
\* passed to ClaudeAgentOptions: a listed tool is approved; an unlisted one
\* needs a permission decision, which bypassPermissions always grants
Permitted(name) == name \in allowed_tools \/ permission_mode = "bypassPermissions"

\* the message types of the stream the loop distinguishes
\* total_cost_usd is counted in 1/10000 USD; NoCost stands for None
NoCost == 0 - 1
AssistantMessages == [type : {"assistant"}, is_error : {FALSE}, duration_ms : {0},
                      total_cost_usd : {NoCost}]
OtherMessages == [type : {"system"}, is_error : {FALSE}, duration_ms : {0},
                  total_cost_usd : {NoCost}]
ResultMessages == [type : {"result"}, is_error : BOOLEAN, duration_ms : {0, 2500},
                   total_cost_usd : {NoCost, 0, 100}]
Messages == AssistantMessages \cup OtherMessages \cup ResultMessages

EndsResponseNever(msg) == FALSE

\* client.receive_response(): the iteration ends after the message it has
\* just yielded exactly if that message is a ResultMessage
EndsResponse(msg) == msg.type = "result"

Line(name, flag, num) == [line |-> name, flag |-> flag, num |-> num]

ReportNegated(msg) ==
    IF msg.type = "result"
    THEN <<Line("status", ~msg.is_error, 0), Line("duration", FALSE, msg.duration_ms)>>
    ELSE <<>>

\* the lines run_assistant prints for a message
Report(msg) ==
    IF msg.type = "result"
    THEN <<Line("status", msg.is_error, 0), Line("duration", FALSE, msg.duration_ms)>>
         \o (IF msg.total_cost_usd \notin {NoCost, 0}
             THEN <<Line("cost", FALSE, msg.total_cost_usd)>>
             ELSE <<>>)
    ELSE IF msg.type = "assistant" THEN <<Line("text", FALSE, 0)>>
    ELSE <<>>

ExceptRunRetry(e) == [pc |-> "connect", out |-> "none"]

\* the except clause of run_assistant: print and re-raise
ExceptRun(e) == [pc |-> "raised", out |-> e]

MissingVarsKeyOnly(e) ==
    IF Truthy(e.ANTHROPIC_API_KEY, "") THEN <<>> ELSE <<"ANTHROPIC_API_KEY">>

\* main: the required variables that are missing, in the order of required_vars
MissingVars(e) ==
    (IF Truthy(e.ANTHROPIC_API_KEY, "") THEN <<>> ELSE <<"ANTHROPIC_API_KEY">>)
    \o (IF Truthy(e.RECIPIENT_EMAIL, "") THEN <<>> ELSE <<"RECIPIENT_EMAIL">>)

SessionErrors == {"CLIConnectionError", "ProcessError"}

VARIABLES
    tokenFile,        \* content of TOKEN_FILE
    credentialsFile,  \* os.path.exists(CREDENTIALS_FILE)
    pc,               \* position of each run in get_upcoming_events
    creds,            \* local variable creds of get_calendar_service
    gcs,              \* how the call of get_calendar_service ended
    items,            \* events_result.get("items", [])
    exc,              \* exception raised inside the try block of this call
    result,           \* what get_upcoming_events returned
    logged,           \* lines printed by the except clauses in this call
    hist,             \* what this call has done so far
    gen,              \* generation of the most recently issued access token
    calls,            \* number of calls started
    env,              \* os.environ
    mail,             \* the last invocation of send_email
    runPc,            \* position of the process in main / run_assistant
    sessions,         \* number of sessions opened (ClaudeSDKClient entered)
    consumed,         \* number of messages taken from the stream
    streamEnded,      \* receive_response() is exhausted
    printed,          \* what run_assistant and main have printed
    toolLog,          \* tool requests of the session and what became of them
    terminal,         \* the ResultMessages the loop has been given
    streamExc,        \* exception raised inside the try block of run_assistant
    raisedOut,        \* exception that left run_assistant
    fetch             \* one evaluation of get_upcoming_events and its rendering

calVars == <<tokenFile, credentialsFile, pc, creds, gcs, items, exc, result,
             logged, hist, gen, calls>>
mailVars == <<mail>>
runVars == <<runPc, sessions, consumed, streamEnded, printed, toolLog, terminal,
             streamExc, raisedOut>>
vars == <<calVars, env, mailVars, runVars, fetch>>

(***************************************************************************)
(* get_calendar_service and get_upcoming_events                            *)
(***************************************************************************)
NoHist == [tok0 |-> None, cfile0 |-> FALSE, refreshes |-> 0, flows |-> 0,
           opens |-> 0, writes |-> 0, fileAtRaise |-> None]

NoMsg == <<>>

NotCalled == [status |-> "none", creds |-> None, exc |-> "none", msg |-> NoMsg]

NoResult == [status |-> "none", events |-> <<>>, exc |-> "none"]

CredentialsMissingMsg ==
    <<"credentials.json", "not found at", "CREDENTIALS_FILE",
      "Please set up Google Calendar API credentials.",
      "See calendar_integration.py for instructions.">>

CalInit ==
    /\ tokenFile \in {None} \cup StoredCreds
    /\ credentialsFile \in BOOLEAN
    /\ pc = [p \in RunIds |-> "idle"]
    /\ creds = [p \in RunIds |-> None]
    /\ gcs = [p \in RunIds |-> NotCalled]
    /\ items = [p \in RunIds |-> <<>>]
    /\ exc = [p \in RunIds |-> "none"]
    /\ result = [p \in RunIds |-> NoResult]
    /\ logged = [p \in RunIds |-> <<>>]
    /\ hist = [p \in RunIds |-> NoHist]
    /\ gen = 0
    /\ calls = 0

\* an exception raised inside get_calendar_service: it ends that call and
\* reaches the try block of get_upcoming_events
RaiseInService(p, e, m) ==
    /\ gcs' = [gcs EXCEPT ![p] = [status |-> "raised", creds |-> None, exc |-> e, msg |-> m]]
    /\ exc' = [exc EXCEPT ![p] = e]
    /\ pc' = [pc EXCEPT ![p] = "except"]

AfterLoadSkipCheck(c) ==
    IF ~NeedsAuth(c) THEN "build"
    ELSE IF CanRefresh(c) THEN "refresh"
    ELSE "flow"

\* the branch taken at lines 41-42, once creds is known
AfterLoad(c) ==
    IF ~NeedsAuth(c) THEN "build"
    ELSE IF CanRefresh(c) THEN "refresh"
    ELSE "credfile"

\* get_upcoming_events is entered and calls get_calendar_service
Enter(p) ==
    /\ pc[p] = "idle"
    /\ calls < MaxCalls
    /\ calls' = calls + 1
    /\ pc' = [pc EXCEPT ![p] = "load"]
    /\ creds' = [creds EXCEPT ![p] = None]
    /\ gcs' = [gcs EXCEPT ![p] = [status |-> "running", creds |-> None, exc |-> "none", msg |-> NoMsg]]
    /\ items' = [items EXCEPT ![p] = <<>>]
    /\ exc' = [exc EXCEPT ![p] = "none"]
    /\ result' = [result EXCEPT ![p] = NoResult]
    /\ logged' = [logged EXCEPT ![p] = <<>>]
    /\ hist' = [hist EXCEPT ![p] = [NoHist EXCEPT !.tok0 = tokenFile,
                                                  !.cfile0 = credentialsFile]]
    /\ UNCHANGED <<tokenFile, credentialsFile, gen, env, mailVars, fetch, runVars>>

\* lines 37-42: load the stored token and choose the branch
LoadToken(p) ==
    /\ pc[p] = "load"
    /\ IF tokenFile.kind = "truncated"
       THEN /\ RaiseInService(p, "ValueError", NoMsg)
            /\ hist' = [hist EXCEPT ![p].fileAtRaise = tokenFile]
            /\ UNCHANGED creds
       ELSE /\ creds' = [creds EXCEPT ![p] = tokenFile]
            /\ pc' = [pc EXCEPT ![p] = AfterLoad(tokenFile)]
            /\ UNCHANGED <<gcs, exc, hist>>
    /\ UNCHANGED <<tokenFile, credentialsFile, items, result, logged, gen, calls,
                   env, mailVars, fetch, runVars>>

RefreshFailedFallThrough(p) ==
    /\ pc' = [pc EXCEPT ![p] = "credfile"]
    /\ hist' = [hist EXCEPT ![p].refreshes = @ + 1]
    /\ UNCHANGED <<gcs, exc>>

\* line 43 when creds.refresh raises: nothing catches the exception inside
\* get_calendar_service
RefreshFailed(p) ==
    /\ RaiseInService(p, RefreshError, NoMsg)
    /\ hist' = [hist EXCEPT ![p].refreshes = @ + 1, ![p].fileAtRaise = tokenFile]

\* line 43: creds.refresh(Request()) succeeds with a fresh token, or raises
Refresh(p) ==
    /\ pc[p] = "refresh"
    /\ \E ok \in BOOLEAN :
         IF ok
         THEN /\ gen' = gen + 1
              /\ creds' = [creds EXCEPT ![p] = Cred(gen + 1, TRUE, FALSE, TRUE)]
              /\ pc' = [pc EXCEPT ![p] = "open"]
              /\ hist' = [hist EXCEPT ![p].refreshes = @ + 1]
              /\ UNCHANGED <<gcs, exc>>
         ELSE /\ RefreshFailed(p)
              /\ UNCHANGED <<gen, creds>>
    /\ UNCHANGED <<tokenFile, credentialsFile, items, result, logged, calls,
                   env, mailVars, fetch, runVars>>

\* lines 45-50: the client-authorization artifact must exist
CheckCredentialsFile(p) ==
    /\ pc[p] = "credfile"
    /\ IF ~credentialsFile
       THEN /\ RaiseInService(p, "FileNotFoundError", CredentialsMissingMsg)
            /\ hist' = [hist EXCEPT ![p].fileAtRaise = tokenFile]
       ELSE /\ pc' = [pc EXCEPT ![p] = "flow"]
            /\ UNCHANGED <<gcs, exc, hist>>
    /\ UNCHANGED <<tokenFile, credentialsFile, creds, items, result, logged, gen,
                   calls, env, mailVars, fetch, runVars>>

\* lines 51-52: the interactive consent flow completes, or is abandoned
RunFlow(p) ==
    /\ pc[p] = "flow"
    /\ \/ \E r \in BOOLEAN :
            /\ gen' = gen + 1
            /\ creds' = [creds EXCEPT ![p] = Cred(gen + 1, TRUE, FALSE, r)]
            /\ pc' = [pc EXCEPT ![p] = "open"]
            /\ hist' = [hist EXCEPT ![p].flows = @ + 1]
            /\ UNCHANGED <<gcs, exc>>
       \/ \E e \in FlowErrors :
            /\ RaiseInService(p, e, NoMsg)
            /\ hist' = [hist EXCEPT ![p].flows = @ + 1, ![p].fileAtRaise = tokenFile]
            /\ UNCHANGED <<gen, creds>>
    /\ UNCHANGED <<tokenFile, credentialsFile, items, result, logged, calls,
                   env, mailVars, fetch, runVars>>

\* line 55: open(TOKEN_FILE, "w") truncates the file, or raises
OpenToken(p) ==
    /\ pc[p] = "open"
    /\ \/ /\ tokenFile' = Truncated
          /\ pc' = [pc EXCEPT ![p] = "write"]
          /\ hist' = [hist EXCEPT ![p].opens = @ + 1]
          /\ UNCHANGED <<gcs, exc>>
       \/ /\ RaiseInService(p, "OSError", NoMsg)
          /\ hist' = [hist EXCEPT ![p].fileAtRaise = tokenFile]
          /\ UNCHANGED tokenFile
    /\ UNCHANGED <<credentialsFile, creds, items, result, logged, gen, calls,
                   env, mailVars, fetch, runVars>>

\* line 56: token.write(creds.to_json()) and the close of the file
WriteToken(p) ==
    /\ pc[p] = "write"
    /\ \/ /\ tokenFile' = creds[p]
          /\ pc' = [pc EXCEPT ![p] = "build"]
          /\ hist' = [hist EXCEPT ![p].writes = @ + 1]
          /\ UNCHANGED <<gcs, exc>>
       \/ /\ RaiseInService(p, "OSError", NoMsg)
          /\ hist' = [hist EXCEPT ![p].fileAtRaise = tokenFile]
          /\ UNCHANGED tokenFile
    /\ UNCHANGED <<credentialsFile, creds, items, result, logged, gen, calls,
                   env, mailVars, fetch, runVars>>

\* line 58: the service is built with creds and returned
Build(p) ==
    /\ pc[p] = "build"
    /\ gcs' = [gcs EXCEPT ![p] = [status |-> "returned", creds |-> creds[p],
                                  exc |-> "none", msg |-> NoMsg]]
    /\ pc' = [pc EXCEPT ![p] = "query"]
    /\ UNCHANGED <<tokenFile, credentialsFile, creds, items, exc, result, logged,
                   hist, gen, calls, env, mailVars, fetch, runVars>>

\* lines 70-88: the list query returns items, or raises
Execute(p) ==
    /\ pc[p] = "query"
    /\ \/ \E its \in ItemLists :
            /\ items' = [items EXCEPT ![p] = its]
            /\ pc' = [pc EXCEPT ![p] = "normalize"]
            /\ UNCHANGED exc
       \/ \E e \in HttpErrors :
            /\ exc' = [exc EXCEPT ![p] = e]
            /\ pc' = [pc EXCEPT ![p] = "except"]
            /\ UNCHANGED items
    /\ UNCHANGED <<tokenFile, credentialsFile, creds, gcs, result, logged, hist,
                   gen, calls, env, mailVars, fetch, runVars>>

\* lines 91-105: every record is normalized and the list returned, or a
\* record without "start" or "end" raises KeyError
Normalize(p) ==
    /\ pc[p] = "normalize"
    /\ IF AllSubscriptable(items[p])
       THEN /\ result' = [result EXCEPT ![p] = [status |-> "returned",
                                                events |-> FormatEvents(items[p]),
                                                exc |-> "none"]]
            /\ pc' = [pc EXCEPT ![p] = "done"]
            /\ UNCHANGED exc
       ELSE /\ exc' = [exc EXCEPT ![p] = "KeyError"]
            /\ pc' = [pc EXCEPT ![p] = "except"]
            /\ UNCHANGED result
    /\ UNCHANGED <<tokenFile, credentialsFile, creds, gcs, items, logged, hist,
                   gen, calls, env, mailVars, fetch, runVars>>

\* `except Exception` (with the two clauses before it) catches every exception
CatchesDropLast(e) == e \in {"HttpError", "FileNotFoundError"}

Catches(e) == TRUE

\* lines 107-115: the exception is printed and [] returned
Handle(p) ==
    /\ pc[p] = "except"
    /\ IF Catches(exc[p])
       THEN /\ logged' = [logged EXCEPT ![p] = Append(@, [prefix |-> ExceptClause(exc[p]),
                                                          exc |-> exc[p]])]
            /\ result' = [result EXCEPT ![p] = [status |-> "returned", events |-> <<>>,
                                                exc |-> "none"]]
       ELSE /\ result' = [result EXCEPT ![p] = [status |-> "raised", events |-> <<>>,
                                                exc |-> exc[p]]]
            /\ UNCHANGED logged
    /\ pc' = [pc EXCEPT ![p] = "done"]
    /\ UNCHANGED <<tokenFile, credentialsFile, creds, gcs, items, exc, hist, gen, calls,
                   env, mailVars, fetch, runVars>>

\* the caller has the result and drops it; the run can call again
Finish(p) ==
    /\ pc[p] = "done"
    /\ pc' = [pc EXCEPT ![p] = "idle"]
    /\ creds' = [creds EXCEPT ![p] = None]
    /\ gcs' = [gcs EXCEPT ![p] = NotCalled]
    /\ items' = [items EXCEPT ![p] = <<>>]
    /\ result' = [result EXCEPT ![p] = NoResult]
    /\ logged' = [logged EXCEPT ![p] = <<>>]
    /\ hist' = [hist EXCEPT ![p] = NoHist]
    /\ exc' = [exc EXCEPT ![p] = "none"]
    /\ UNCHANGED <<tokenFile, credentialsFile, gen, calls, env, mailVars, fetch, runVars>>

\* between calls, time passes and the stored access token expires
Expire ==
    /\ \A p \in RunIds : pc[p] = "idle"
    /\ tokenFile.kind = "cred"
    /\ ~tokenFile.expired
    /\ calls < MaxCalls
    /\ tokenFile' = [tokenFile EXCEPT !.expired = TRUE]
    /\ UNCHANGED <<credentialsFile, pc, creds, gcs, items, exc, result, logged,
                   hist, gen, calls, env, mailVars, fetch, runVars>>

Step(p) ==
    \/ LoadToken(p) \/ Refresh(p) \/ CheckCredentialsFile(p) \/ RunFlow(p)
    \/ OpenToken(p) \/ WriteToken(p) \/ Build(p) \/ Execute(p) \/ Normalize(p)
    \/ Handle(p) \/ Finish(p)

\* runs scheduled one after another: a call starts when no other is under way
EnterAlone(p) == (\A q \in RunIds : pc[q] = "idle") /\ Enter(p)

DefaultEnv ==
    [SMTP_HOST |-> SetTo("localhost"), SMTP_PORT |-> Unset(<<>>), SMTP_USER |-> Unset(""),
     SMTP_PASSWORD |-> Unset(""), FROM_EMAIL |-> Unset(""),
     ANTHROPIC_API_KEY |-> SetTo("sk-key"), RECIPIENT_EMAIL |-> SetTo("you@example.com")]

NotInvoked == [invoked |-> FALSE, args |-> [to |-> Missing, subject |-> Missing, body_html |-> Missing],
               res |-> Raised("none"), net |-> <<>>]

MailIdle == mail = NotInvoked

RunIdle ==
    /\ runPc = "entry"
    /\ sessions = 0
    /\ consumed = 0
    /\ streamEnded = FALSE
    /\ printed = <<>>
    /\ toolLog = <<>>
    /\ terminal = <<>>
    /\ streamExc = "none"
    /\ raisedOut = "none"

CalNext == Expire \/ \E p \in RunIds : EnterAlone(p) \/ Step(p)

NoText == [status |-> "none", lines |-> <<>>]

NotFetched(c, n, d) ==
    [done |-> FALSE, cal |-> c, now |-> n, days |-> d, items |-> <<>>, out |-> <<>>,
     text |-> NoText]

FetchIdle == fetch = NotFetched(<<>>, 0, 1)

InitCal == CalInit /\ env = DefaultEnv /\ MailIdle /\ RunIdle /\ FetchIdle

SpecCal == InitCal /\ [][CalNext]_vars

(***************************************************************************)
(* send_email as an action: one invocation with some arguments, against an *)
(* SMTP server that behaves in some way                                    *)
(***************************************************************************)
InvokeSendEmail ==
    \E args \in ArgSets, fault \in SmtpFaults :
        LET r == send_email(env, args, fault)
        IN  /\ mail' = [invoked |-> TRUE, args |-> args, res |-> r.res, net |-> r.net]
            /\ UNCHANGED <<calVars, env, runVars, fetch>>

MailEnvs == { e \in Envs : e.ANTHROPIC_API_KEY = DefaultEnv.ANTHROPIC_API_KEY
                           /\ e.RECIPIENT_EMAIL = DefaultEnv.RECIPIENT_EMAIL }

CalIdle ==
    /\ tokenFile = None
    /\ credentialsFile = FALSE
    /\ pc = [p \in RunIds |-> "idle"]
    /\ creds = [p \in RunIds |-> None]
    /\ gcs = [p \in RunIds |-> NotCalled]
    /\ items = [p \in RunIds |-> <<>>]
    /\ exc = [p \in RunIds |-> "none"]
    /\ result = [p \in RunIds |-> NoResult]
    /\ logged = [p \in RunIds |-> <<>>]
    /\ hist = [p \in RunIds |-> NoHist]
    /\ gen = 0
    /\ calls = 0

MailNext == InvokeSendEmail

InitMail == CalIdle /\ env \in MailEnvs /\ MailIdle /\ RunIdle /\ FetchIdle

SpecMail == InitMail /\ [][MailNext]_vars

(***************************************************************************)
(* main and run_assistant                                                  *)
(***************************************************************************)
RECURSIVE NameLines(_)
NameLines(names) ==
    IF names = <<>> THEN <<>>
    ELSE <<Line(Head(names), FALSE, 0)>> \o NameLines(Tail(names))

\* main, lines 191-201: stop when a required variable is missing, else enter
\* run_assistant (lines 141-164)
main ==
    /\ runPc = "entry"
    /\ IF MissingVars(env) # <<>>
       THEN /\ printed' = <<Line("Missing required environment variables:", FALSE, 0)>>
                          \o NameLines(MissingVars(env))
                          \o <<Line("Please copy .env.example to .env and fill in your values.",
                                    FALSE, 0)>>
            /\ runPc' = "exit"
       ELSE /\ printed' = <<Line("Starting ClaudePersonalAssistant...", FALSE, 0)>>
            /\ runPc' = "connect"
    /\ UNCHANGED <<calVars, env, mailVars, fetch, sessions, consumed, streamEnded, toolLog,
                   terminal, streamExc, raisedOut>>

\* lines 184-186, reached from any statement of the try block that raises
Except(e) ==
    /\ streamExc' = e
    /\ printed' = Append(printed, Line("Error running assistant", FALSE, 0))
    /\ runPc' = ExceptRun(e).pc
    /\ raisedOut' = ExceptRun(e).out

\* line 167: the session is opened with the options of lines 149-162
Connect ==
    /\ runPc = "connect"
    /\ sessions' = sessions + 1
    /\ \/ /\ runPc' = "query"
          /\ UNCHANGED <<printed, streamExc, raisedOut>>
       \/ \E e \in SessionErrors : Except(e)
    /\ UNCHANGED <<calVars, env, mailVars, fetch, consumed, streamEnded, toolLog, terminal>>

\* line 168: the prompt is sent
Query ==
    /\ runPc = "query"
    /\ \/ /\ runPc' = "loop"
          /\ UNCHANGED <<printed, streamExc, raisedOut>>
       \/ \E e \in SessionErrors : Except(e)
    /\ UNCHANGED <<calVars, env, mailVars, fetch, sessions, consumed, streamEnded, toolLog,
                   terminal>>

\* a tool request of the agent, decided and carried out by the session while
\* the loop waits for the next message
ToolRequest ==
    /\ runPc = "loop"
    /\ ~streamEnded
    /\ Len(toolLog) < MaxTools
    /\ \E name \in RequestedTools, args \in ArgSets, fault \in SmtpFaults, err \in BOOLEAN :
         LET r == send_email(env, args, fault).res
             failed == IF name = "mcp__email__send_email"
                       THEN r.status = "raised" \/ r.is_error
                       ELSE err
         IN  toolLog' = Append(toolLog,
                 [name |-> name, executed |-> Permitted(name),
                  is_error |-> IF Permitted(name) THEN failed ELSE TRUE])
    /\ UNCHANGED <<calVars, env, mailVars, fetch, runPc, sessions, consumed, streamEnded,
                   printed, terminal, streamExc, raisedOut>>

\* lines 170-183: one iteration of the loop over client.receive_response()
Receive ==
    /\ runPc = "loop"
    /\ ~streamEnded
    /\ consumed < MaxEvents
    /\ \E msg \in Messages :
         /\ consumed' = consumed + 1
         /\ printed' = printed \o Report(msg)
         /\ terminal' = IF msg.type = "result" THEN Append(terminal, msg) ELSE terminal
         /\ streamEnded' = EndsResponse(msg)
    /\ UNCHANGED <<calVars, env, mailVars, fetch, runPc, sessions, toolLog, streamExc, raisedOut>>

\* the stream raises instead of yielding a message
StreamRaises ==
    /\ runPc = "loop"
    /\ ~streamEnded
    /\ \E e \in SessionErrors : Except(e)
    /\ UNCHANGED <<calVars, env, mailVars, fetch, sessions, consumed, streamEnded, toolLog,
                   terminal>>

\* the iteration is over: the session is closed and run_assistant returns
LoopEnd ==
    /\ runPc = "loop"
    /\ streamEnded
    /\ runPc' = "returned"
    /\ UNCHANGED <<calVars, env, mailVars, fetch, sessions, consumed, streamEnded, printed,
                   toolLog, terminal, streamExc, raisedOut>>

RunEnvs == { e \in Envs : /\ e.SMTP_HOST \in {Unset(""), SetTo("localhost")}
                          /\ e.SMTP_PORT \in {Unset(<<>>), SetTo(<<"x">>)}
                          /\ e.SMTP_USER = Unset("")
                          /\ e.SMTP_PASSWORD = Unset("")
                          /\ e.FROM_EMAIL = Unset("") }

RunNext == main \/ Connect \/ Query \/ ToolRequest \/ Receive \/ StreamRaises \/ LoopEnd

InitRun == CalIdle /\ env \in RunEnvs /\ MailIdle /\ RunIdle /\ FetchIdle

SpecRun == InitRun /\ [][RunNext]_vars

(***************************************************************************)
(* get_upcoming_events with the service at hand, and the rendering of its  *)
(* result, as __main__ does at lines 147-150                               *)
(***************************************************************************)
FetchInputs ==
    { NotFetched(c, n, d) : c \in TimedCalendars, n \in 0..MaxTime, d \in 1..MaxDays }
    \cup { NotFetched(c, 0, 1) : c \in ShapeCalendars \cup FieldCalendars }

FetchWindow ==
    /\ ~fetch.done
    /\ LET its == ListEvents(fetch.cal, fetch.now, TimeMax(fetch.now, fetch.days))
           out == NormalizeBatch(its)
       IN  fetch' = [fetch EXCEPT !.done = TRUE, !.items = its, !.out = out,
                                  !.text = format_events_for_prompt(out)]
    /\ UNCHANGED <<calVars, env, mailVars, runVars>>

FetchNext == FetchWindow

InitFetch == CalIdle /\ env = DefaultEnv /\ MailIdle /\ RunIdle /\ fetch \in FetchInputs

SpecFetch == InitFetch /\ [][FetchNext]_vars

(***************************************************************************)
(* Properties of get_calendar_service and get_upcoming_events              *)
(***************************************************************************)
Started(p) == gcs[p].status # "none"
Ended(p) == gcs[p].status \in {"returned", "raised"}
ReturnedService(p) == gcs[p].status = "returned"

NoStoredToken(c) == c.kind = "none"
ExpiredRefreshable(c) == c.kind = "cred" /\ c.expired /\ c.refresh_token
ExpiredUnrefreshable(c) == c.kind = "cred" /\ c.expired /\ ~c.refresh_token

\* C1: whatever the stored credential was when the call started, a call of
\* get_calendar_service that has ended took the branch of that state: no token
\* and no credentials.json is a FileNotFoundError; a valid token is returned as
\* stored, with no refresh, no consent flow and no write; an expired token with
\* a refresh token is returned only after one refresh and one write of the new
\* credential; an expired token without one is returned only after one consent
\* flow and one write; and the credential a service is built with is never
\* expired.
C1_BranchPerCredentialState ==
    \A p \in RunIds :
        LET h == hist[p]
            c0 == h.tok0
        IN  Ended(p) =>
            /\ (NoStoredToken(c0) /\ ~h.cfile0) =>
                   gcs[p].status = "raised" /\ gcs[p].exc = "FileNotFoundError"
            /\ Valid(c0) =>
                   /\ ReturnedService(p) /\ gcs[p].creds = c0 /\ tokenFile = c0
                   /\ h.refreshes = 0 /\ h.flows = 0 /\ h.opens = 0 /\ h.writes = 0
            /\ ExpiredRefreshable(c0) =>
                   /\ h.refreshes = 1 /\ h.flows = 0
                   /\ ReturnedService(p) =>
                          /\ h.writes = 1 /\ tokenFile = gcs[p].creds
                          /\ gcs[p].creds.gen > c0.gen
            /\ ExpiredUnrefreshable(c0) =>
                   /\ h.refreshes = 0
                   /\ ReturnedService(p) =>
                          /\ h.flows = 1 /\ h.writes = 1 /\ tokenFile = gcs[p].creds
                          /\ gcs[p].creds.gen > c0.gen
            /\ ReturnedService(p) => Valid(gcs[p].creds)

C1_Witness ==
    \E p \in RunIds :
        /\ ReturnedService(p) /\ ExpiredRefreshable(hist[p].tok0)
        /\ hist[p].writes = 1 /\ tokenFile = gcs[p].creds

\* C2 (as stated): a call that started from an expired token with a refresh
\* token never ends with the failure of the refresh.
C2_RefreshFailureFallsThrough ==
    \A p \in RunIds :
        (Started(p) /\ ExpiredRefreshable(hist[p].tok0)) =>
            ~(gcs[p].status = "raised" /\ gcs[p].exc = RefreshError)

\* C2 (amended): a call that started from an expired token with a refresh
\* token makes one refresh attempt and never starts the consent flow; when the
\* refresh fails the call ends with that failure and the token file is as it
\* was.
C2_RefreshFailureEndsCall ==
    \A p \in RunIds :
        (Started(p) /\ ExpiredRefreshable(hist[p].tok0)) =>
            /\ hist[p].refreshes <= 1 /\ hist[p].flows = 0
            /\ Ended(p) => hist[p].refreshes = 1
            /\ (gcs[p].status = "raised" /\ gcs[p].exc = RefreshError) =>
                   /\ hist[p].opens = 0 /\ tokenFile = hist[p].tok0
                   /\ pc[p] \in {"except", "done"}

C2_Witness ==
    \E p \in RunIds :
        /\ ExpiredRefreshable(hist[p].tok0)
        /\ gcs[p].status = "raised" /\ gcs[p].exc = RefreshError
        /\ pc[p] = "done"

Names(msg, word) == \E i \in 1..Len(msg) : msg[i] = word

NoUsableCredential(c) ==
    c.kind = "none" \/ (c.kind = "cred" /\ ~Valid(c) /\ ~CanRefresh(c))

\* C3: a call that starts with no usable credential and without
\* credentials.json never refreshes, never starts the consent flow and never
\* opens the token file; it ends with a FileNotFoundError whose message names
\* credentials.json and its path, the token file is as it was, and the call is
\* not made again.
C3_MissingArtifactIsFatal ==
    \A p \in RunIds :
        (Started(p) /\ NoUsableCredential(hist[p].tok0) /\ ~hist[p].cfile0) =>
            /\ hist[p].refreshes = 0 /\ hist[p].flows = 0 /\ hist[p].opens = 0
            /\ tokenFile = hist[p].tok0
            /\ ~ReturnedService(p)
            /\ Ended(p) =>
                   /\ gcs[p].exc = "FileNotFoundError"
                   /\ Names(gcs[p].msg, "credentials.json")
                   /\ Names(gcs[p].msg, "CREDENTIALS_FILE")
                   /\ pc[p] \in {"except", "done"}

C3_Witness ==
    \E p \in RunIds :
        /\ hist[p].tok0.kind = "cred" /\ NoUsableCredential(hist[p].tok0)
        /\ ~hist[p].cfile0
        /\ gcs[p].status = "raised" /\ gcs[p].exc = "FileNotFoundError"

\* C6: get_upcoming_events never ends by raising; when anything raised inside
\* its try block, it printed the exception once and returned the empty list.
C6_FailuresBecomeEmpty ==
    \A p \in RunIds :
        /\ result[p].status # "raised"
        /\ pc[p] = "done" =>
               /\ result[p].status = "returned"
               /\ exc[p] # "none" =>
                      /\ result[p].events = <<>>
                      /\ Len(logged[p]) = 1
                      /\ logged[p][1].exc = exc[p]

C6_Witness ==
    \E p \in RunIds :
        /\ pc[p] = "done" /\ exc[p] = RefreshError
        /\ result[p].status = "returned" /\ result[p].events = <<>>

(***************************************************************************)
(* Properties of send_email                                                *)
(***************************************************************************)
\* C4: every invocation of send_email returns a result object with content
\* present, and never ends by raising; a result that is not the success
\* result has its error flag set.
C4_SendEmailNeverRaises ==
    mail.invoked =>
        /\ mail.res.status = "returned"
        /\ Len(mail.res.content) >= 1
        /\ (mail.res.is_error \/ mail.res.content[1].text[1] = "Email sent successfully to")

\* C5: an invocation with SMTP_HOST unset or empty returns the error result
\* that names SMTP_HOST, and makes no network operation.
C5_HostUnsetIsReported ==
    (mail.invoked /\ ~Truthy(env.SMTP_HOST, "")) =>
        /\ mail.res.status = "returned"
        /\ mail.res.is_error
        /\ Len(mail.res.content) >= 1
        /\ Names(mail.res.content[1].text, "SMTP_HOST")
        /\ mail.net = <<>>

(***************************************************************************)
(* Properties of run_assistant                                             *)
(***************************************************************************)
StatusLines(out) == SelectSeq(out, LAMBDA l : l.line = "status")

\* C7: the loop is given at most one terminal event; the outcome is printed
\* once for it; and once it has been given, no further message is taken from
\* the stream and what has been reported does not change.
C7_TerminalEventEndsConsumption ==
    /\ [](/\ Len(terminal) <= 1
          /\ Len(StatusLines(printed)) = Len(terminal)
          /\ runPc = "returned" => Len(terminal) = 1)
    /\ [][Len(terminal) >= 1 =>
             /\ consumed' = consumed
             /\ terminal' = terminal
             /\ printed' = printed]_vars

C7_Witness ==
    /\ runPc = "returned"
    /\ Len(terminal) = 1
    /\ consumed >= 2
    /\ Len(StatusLines(printed)) = 1

\* C8: an exception raised inside the try block of run_assistant leaves
\* run_assistant as that exception; after it no message is taken from the
\* stream and no session is opened, and the run has opened one session.
C8_ExceptionAbortsRun ==
    /\ [](streamExc # "none" =>
             /\ runPc = "raised"
             /\ raisedOut = streamExc
             /\ sessions = 1)
    /\ [][streamExc # "none" =>
             /\ consumed' = consumed
             /\ sessions' = sessions
             /\ raisedOut' = raisedOut
             /\ runPc' = runPc]_vars

C8_Witness ==
    /\ runPc = "raised"
    /\ raisedOut \in SessionErrors
    /\ consumed >= 1
    /\ sessions = 1

ToolErrorSeen == \E i \in 1..Len(toolLog) : toolLog[i].is_error

\* C9 (as stated): a session in which a tool result had its error flag set is
\* not reported as success.
C9_ToolErrorReachesOutcome ==
    (ToolErrorSeen /\ Len(terminal) >= 1) =>
        \A i \in 1..Len(StatusLines(printed)) : StatusLines(printed)[i].flag

\* C9 (amended): the reported outcome is the is_error flag of the terminal
\* event and nothing else, also when a tool result of the session had its
\* error flag set.
C9_OutcomeIsTerminalFlag ==
    /\ Len(StatusLines(printed)) = Len(terminal)
    /\ \A i \in 1..Len(terminal) :
           StatusLines(printed)[i].flag = terminal[i].is_error

C9_Witness ==
    /\ ToolErrorSeen
    /\ runPc = "returned"
    /\ Len(terminal) = 1
    /\ ~terminal[1].is_error
    /\ ~StatusLines(printed)[1].flag

\* C10: no tool outside the allow-list is ever executed in the session.
C10_OnlyAllowedToolsRun ==
    \A i \in 1..Len(toolLog) :
        toolLog[i].executed => toolLog[i].name \in allowed_tools

(***************************************************************************)
(* Properties of main                                                      *)
(***************************************************************************)
KeyMissing == ~env.ANTHROPIC_API_KEY.set \/ env.ANTHROPIC_API_KEY.value = ""
RecipientMissing == ~env.RECIPIENT_EMAIL.set \/ env.RECIPIENT_EMAIL.value = ""

ExpectedNames ==
    (IF KeyMissing THEN <<"ANTHROPIC_API_KEY">> ELSE <<>>)
    \o (IF RecipientMissing THEN <<"RECIPIENT_EMAIL">> ELSE <<>>)

PrintedNames ==
    SelectSeq(printed, LAMBDA l : l.line \in {"ANTHROPIC_API_KEY", "RECIPIENT_EMAIL"})

\* C11: once main has run, if ANTHROPIC_API_KEY or RECIPIENT_EMAIL is unset or
\* empty it has printed exactly the missing names and returned, and no session
\* was opened, no message consumed, no tool invoked and no email sent; main
\* goes on to run_assistant only when both are present.
C11_MissingConfigStopsRun ==
    runPc # "entry" =>
        IF KeyMissing \/ RecipientMissing
        THEN /\ runPc = "exit"
             /\ Len(PrintedNames) = Len(ExpectedNames)
             /\ \A i \in 1..Len(ExpectedNames) : PrintedNames[i].line = ExpectedNames[i]
             /\ sessions = 0 /\ consumed = 0 /\ toolLog = <<>>
             /\ ~mail.invoked /\ raisedOut = "none"
        ELSE runPc # "exit" /\ PrintedNames = <<>>

C11_Witness ==
    /\ runPc = "exit"
    /\ ~KeyMissing /\ RecipientMissing
    /\ Len(PrintedNames) = 1
    /\ sessions = 0

(***************************************************************************)
(* The final report of run_assistant                                       *)
(***************************************************************************)
DurationLines(out) == SelectSeq(out, LAMBDA l : l.line = "duration")
CostLines(out) == SelectSeq(out, LAMBDA l : l.line = "cost")

\* C19: for the terminal event the loop was given, the report shows error
\* exactly when is_error is set, shows the duration of the event, and has a
\* cost line exactly when the event reports a cost, a cost of zero included.
C19_ReportShowsEveryReportedCost ==
    Len(terminal) = 1 =>
        LET m == terminal[1]
        IN  /\ Len(StatusLines(printed)) = 1
            /\ StatusLines(printed)[1].flag = m.is_error
            /\ Len(DurationLines(printed)) = 1
            /\ DurationLines(printed)[1].num = m.duration_ms
            /\ IF m.total_cost_usd # NoCost
               THEN /\ Len(CostLines(printed)) = 1
                    /\ CostLines(printed)[1].num = m.total_cost_usd
               ELSE CostLines(printed) = <<>>

(***************************************************************************)
(* The token file                                                          *)
(***************************************************************************)
\* C14: the token file is never empty or partial: in every state, also between
\* the open and the write of a call and after a write that failed, it holds
\* the complete credential the call started with or the complete new one.
C14_TokenFileNeverPartial ==
    /\ tokenFile.kind # "truncated"
    /\ \A p \in RunIds :
           (Started(p) /\ pc[p] # "done") =>
               tokenFile \in {hist[p].tok0, creds[p]}

CredentialChanged(p) == ReturnedService(p) /\ gcs[p].creds # hist[p].tok0

\* C16: a call that has ended opened and wrote the token file exactly once if
\* it returned a credential other than the stored one, and otherwise did not
\* write it and left it as it was.
C16_OneWritePerChange ==
    \A p \in RunIds :
        Ended(p) =>
            IF CredentialChanged(p)
            THEN hist[p].opens = 1 /\ hist[p].writes = 1 /\ tokenFile = gcs[p].creds
            ELSE hist[p].writes = 0 /\ tokenFile = hist[p].tok0

(***************************************************************************)
(* The send attempt of send_email                                          *)
(***************************************************************************)
Count(seq, x) == Cardinality({ i \in 1..Len(seq) : seq[i] = x })

Before(seq, x, y) ==
    \A i, j \in 1..Len(seq) : (seq[i] = x /\ seq[j] = y) => i < j

Credentialed == Truthy(env.SMTP_USER, "") /\ Truthy(env.SMTP_PASSWORD, "")

\* C17: an invocation with SMTP_HOST configured connects exactly once and
\* sends at most once; it starts TLS and logs in only when a user and a
\* password are configured, and then before sending; and it returns a result:
\* the success result naming recipient and subject only if the send was made,
\* and otherwise an error result carrying the exception message.
C17_OneSendAttempt ==
    (mail.invoked /\ Truthy(env.SMTP_HOST, "")) =>
        /\ Count(mail.net, "connect") = 1
        /\ Count(mail.net, "sendmail") <= 1
        /\ (Count(mail.net, "starttls") > 0 \/ Count(mail.net, "login") > 0) => Credentialed
        /\ Before(mail.net, "starttls", "login")
        /\ Before(mail.net, "login", "sendmail")
        /\ mail.res.status = "returned"
        /\ IF mail.res.is_error
           THEN mail.res.content[1].text[1] = "Failed to send email:"
           ELSE /\ mail.net[Len(mail.net)] = "sendmail"
                /\ mail.res.content[1].text
                     = <<"Email sent successfully to", mail.args.to,
                         "with subject:", mail.args.subject>>

(***************************************************************************)
(* Runs that overlap: nothing in get_calendar_service keeps a second run    *)
(* from starting while a first one is under way                             *)
(***************************************************************************)
ConcNext == Expire \/ \E p \in RunIds : Enter(p) \/ Step(p)

SpecConc == InitCal /\ [][ConcNext]_vars

\* a run that has read the token file and is acquiring or writing a new
\* credential
BetweenReadAndWrite(p) == pc[p] \in {"refresh", "flow", "open", "write"}

\* C15: no two runs are between their read and their write of the token file
\* at the same time, no two runs refresh the same stored credential, and no
\* write replaces a newer credential by an older one.
C15_NoInterleaving ==
    /\ \A p, q \in RunIds :
           p # q => ~(BetweenReadAndWrite(p) /\ BetweenReadAndWrite(q))
    /\ \A p, q \in RunIds :
           (p # q /\ hist[p].refreshes > 0 /\ hist[q].refreshes > 0
                  /\ hist[p].tok0.kind = "cred") =>
               hist[p].tok0 # hist[q].tok0
    /\ \A p \in RunIds :
           (tokenFile.kind = "cred" /\ creds[p].kind = "cred" /\ pc[p] = "build") =>
               tokenFile.gen >= creds[p].gen

(***************************************************************************)
(* Properties of the records get_upcoming_events returns                   *)
(***************************************************************************)
SortedByStart(recs) ==
    \A i, j \in 1..Len(recs) : i < j => recs[i].startT <= recs[j].startT

\* C12 (as stated): every returned record starts and ends inside
\* [now, now + days], the records are in ascending order of start, and there
\* are at most 50 of them.
C12_RecordsInsideWindow ==
    fetch.done =>
        /\ \A i \in 1..Len(fetch.out) :
               /\ fetch.now <= fetch.out[i].startT
               /\ fetch.out[i].endT <= fetch.now + fetch.days
        /\ SortedByStart(fetch.out)
        /\ Len(fetch.out) <= 50

\* C12 (amended): every returned record overlaps the window: it ends after now
\* and starts before now + days; the records are in ascending order of start,
\* and there are at most 50 of them.
C12_RecordsOverlapWindow ==
    fetch.done =>
        /\ \A i \in 1..Len(fetch.out) :
               /\ fetch.out[i].endT > fetch.now
               /\ fetch.out[i].startT < fetch.now + fetch.days
        /\ SortedByStart(fetch.out)
        /\ Len(fetch.out) <= 50

C12_Witness ==
    /\ fetch.done
    /\ Len(fetch.cal) = 2
    /\ Len(fetch.out) = 2
    /\ fetch.out[1].startT < fetch.now
    /\ fetch.out[2].endT > fetch.now + fetch.days
    /\ fetch.cal[1].startT > fetch.cal[2].startT

EndsWithLocation(line, loc) ==
    Len(line) >= 2 /\ line[Len(line) - 1] = " @ " /\ line[Len(line)] = loc

HasAt(line) == \E i \in 1..Len(line) : line[i] = " @ "

\* C13: when the records of the response are normalized and rendered, the
\* line of a record ends with " @ " and the location exactly when the remote
\* record carries a non-empty location, has no " @ " otherwise, and shows
\* "No title" when the remote record carries no summary.
C13_LocationAndTitleRendering ==
    (fetch.done /\ fetch.out # <<>> /\ fetch.text.status = "returned") =>
        /\ Len(fetch.text.lines) = Len(fetch.items)
        /\ \A i \in 1..Len(fetch.items) :
               LET ev == fetch.items[i]
                   line == fetch.text.lines[i]
               IN  /\ IF ev.location \notin {Absent, ""}
                      THEN EndsWithLocation(line, ev.location)
                      ELSE ~HasAt(line)
                   /\ ev.summary = Absent => line[4] = "No title"
                   /\ ev.summary # Absent => line[4] = ev.summary

C13_Witness ==
    /\ fetch.done
    /\ Len(fetch.items) = 1
    /\ fetch.items[1].summary = Absent
    /\ fetch.items[1].location = ""
    /\ fetch.text.status = "returned"
    /\ fetch.text.lines[1] = <<"- ", "%a %b %d (all day)", ": ", "No title">>

\* C18 (as stated): in every returned record start and end are of the same
\* kind.
C18_StartEndSameKind ==
    fetch.done =>
        \A i \in 1..Len(fetch.out) : fetch.out[i].start = fetch.out[i].end

CarriesDateTime(shape) == shape \in {"dateTime", "both"}
CarriesDate(shape) == shape \in {"date", "both"}

KindOf(shape) ==
    IF CarriesDateTime(shape) THEN "dateTime"
    ELSE IF CarriesDate(shape) THEN "date"
    ELSE "None"

\* C18 (amended): start and end are normalized independently: each is the
\* timestamp when the remote field carries a dateTime, else the date when it
\* carries one; so they are of the same kind whenever the remote start and
\* end carry the same fields.
C18_KindFollowsEachField ==
    (fetch.done /\ fetch.out # <<>>) =>
        \A i \in 1..Len(fetch.items) :
            /\ fetch.out[i].start = KindOf(fetch.items[i].start)
            /\ fetch.out[i].end = KindOf(fetch.items[i].end)
            /\ fetch.items[i].start = fetch.items[i].end =>
                   fetch.out[i].start = fetch.out[i].end

C18_Witness ==
    /\ fetch.done
    /\ Len(fetch.out) = 1
    /\ fetch.items[1].start = "both"
    /\ fetch.items[1].end = "date"
    /\ fetch.out[1].start = "dateTime"
    /\ fetch.out[1].end = "date"

\* C20: the result is the empty list, or it has one record for each item of
\* the response, in the same order; when one item cannot be normalized the
\* result is empty, whatever was normalized before it.
C20_AllOrNothing ==
    fetch.done =>
        /\ \/ fetch.out = <<>>
           \/ /\ Len(fetch.out) = Len(fetch.items)
              /\ \A i \in 1..Len(fetch.items) :
                     /\ Subscriptable(fetch.items[i])
                     /\ fetch.out[i].start = KindOf(fetch.items[i].start)
                     /\ fetch.out[i].end = KindOf(fetch.items[i].end)
                     /\ fetch.out[i].startT = fetch.items[i].startT
        /\ (\E i \in 1..Len(fetch.items) : fetch.items[i].start = "absent"
                                           \/ fetch.items[i].end = "absent") =>
               fetch.out = <<>>

C20_Witness ==
    /\ fetch.done
    /\ Len(fetch.items) = 2
    /\ fetch.items[1].start = "dateTime" /\ fetch.items[1].end = "dateTime"
    /\ fetch.items[2].end = "absent"
    /\ fetch.out = <<>>

====
